---- MODULE Spec2Model ----
(***************************************************************************)
(* A model of ari_client: the AriClient object (ari_client.py), its        *)
(* dispatch loop __listen_events, the handler tasks it launches, and the   *)
(* Channel entities (models/channels.py) the events carry.                 *)
(*                                                                         *)
(* Scheduling is asyncio's: one coroutine runs at a time and gives up the  *)
(* processor only at an await that suspends.  The dispatch loop suspends   *)
(* only in `await self.ws.recv()`; a handler task suspends only where the  *)
(* handler awaits.  The steps of a coroutine between two suspensions are   *)
(* separate actions here (so that their order can be observed), and every  *)
(* other coroutine is held back until the running one is suspended again   *)
(* (the guard Quiet).                                                      *)
(***************************************************************************)
EXTENDS Naturals, Sequences, FiniteSets, TLC

\* ---------------------------------------------------------------- bounds
MaxConnects == 1      \* calls of connect() in a run
MaxMsgs == 2          \* messages the transport delivers in a run
MaxAnswers == 1       \* calls of channel.answer() one handler invocation makes
MaxBinds == 2         \* times one Channel object is given handlers
MaxTail == 6          \* characters of a timestamp after its date and time
MaxReconnects == 1    \* further calls of connect() on a client that has connected

\* ---------------------------------------------------------------- values
None == "None"
Handlers == {"h1", "h2"}          \* the callables the application registers
Channels == {"c1", "c2"}          \* channel ids the server reports
Apps == {"app"}
ConnIds == 1..(MaxConnects + MaxReconnects)   \* the k-th connect() makes controller k, ws k, loop k
Callables == {"f1", "f2"}         \* the callables a caller passes as entity handlers
Bridges == {"b1", "b2"}           \* bridge ids the server reports

\* EventType (events.py 9-11)
STASIS_START == "StasisStart"
STASIS_END == "StasisEnd"
EventType == {STASIS_START, STASIS_END}

\* An inbound text message, by the properties its decoding depends on:
\* whether it is JSON at all, its "type", its "channel" object (by id), its
\* "timestamp" and whether "asterisk_id" is present.
Msg(t, c, ts, aid) ==
    [wellformed |-> TRUE, type |-> t, channel |-> c, timestamp |-> ts, asterisk_id |-> aid]
Garbage ==
    [wellformed |-> FALSE, type |-> "Missing", channel |-> "Missing",
     timestamp |-> "bad", asterisk_id |-> FALSE]
NoMsg ==
    [wellformed |-> FALSE, type |-> None, channel |-> None,
     timestamp |-> None, asterisk_id |-> FALSE]

Messages ==
    { Msg(t, c, "colon", TRUE) : t \in EventType, c \in Channels }
    \cup { Msg(STASIS_START, "c1", "nocolon", TRUE),    \* offset written +0300
           Msg(STASIS_END, "c1", "colon", FALSE),       \* StasisEnd needs no asterisk_id
           Msg(STASIS_START, "c1", "colon", FALSE),     \* StasisStart without asterisk_id
           Msg(STASIS_START, "Missing", "colon", TRUE), \* no channel
           Msg(STASIS_END, "c1", "bad", TRUE),          \* timestamp is no ISO date
           Msg("ChannelDtmfReceived", "c1", "colon", TRUE),
           Msg("Missing", "c1", "colon", TRUE),         \* JSON object without "type"
           Garbage }                                    \* not JSON

\* The messages of the runs that are about the client's interface: one valid
\* event and one that is not JSON.
LifecycleMessages == {Msg(STASIS_START, "c1", "colon", TRUE), Garbage}

\* ------------------------------------------------------------- decoding
\* (Variant: the field declared `type: EventType`, so that an unknown kind fails.)
Event_model_validate_json_strict(m) ==
    IF m.wellformed /\ m.type \in EventType
    THEN [ok |-> TRUE, type |-> m.type]
    ELSE [ok |-> FALSE, type |-> None]

\* Event.model_validate_json: `type: EventType | str` is the one required field.
Event_model_validate_json(m) ==
    IF m.wellformed /\ m.type # "Missing"
    THEN [ok |-> TRUE, type |-> m.type]
    ELSE [ok |-> FALSE, type |-> None]

\* validate_timestamp: the offset without a colon is rewritten, then
\* datetime.fromisoformat parses the string or raises.
NormalizeOffset(ts) == IF ts = "nocolon" THEN "colon" ELSE ts
validate_timestamp(ts) == NormalizeOffset(ts) = "colon"

\* A Channel as plain validation produces it: both private handlers are None.
Channel_model_validate(c) ==
    [id |-> c, answer_handler |-> None, stop_handler |-> None]
NoChannel == [id |-> None, answer_handler |-> None, stop_handler |-> None]

\* (Variant: the typed schema with every field optional.)
Typed_model_validate_json_lax(schema, m) ==
    /\ m.wellformed
    /\ m.type \in EventType

\* StasisStartEvent / StasisEndEvent .model_validate_json: the required
\* fields of the schema, each validated.
SchemaOf(type) == IF type = STASIS_START THEN "StasisStartEvent" ELSE "StasisEndEvent"
Typed_model_validate_json(schema, m) ==
    /\ m.wellformed
    /\ m.type \in EventType
    /\ validate_timestamp(m.timestamp)
    /\ m.channel \in Channels
    /\ (schema = "StasisStartEvent" => m.asterisk_id)

\* (Variant: add_handlers fills only the handlers that are still None.)
Channel_add_handlers_keeps(ch, kwargs, answer, stop) ==
    [ok |-> TRUE,
     channel |-> [ch EXCEPT !.answer_handler = IF @ = None THEN answer ELSE @,
                            !.stop_handler = IF @ = None THEN stop ELSE @]]

\* Channel.add_handlers(self, answer_handler, stop_handler): the keyword
\* arguments a call may pass, as Python binds them.
Channel_add_handlers_params == {"answer_handler", "stop_handler"}
\* The keywords __listen_events passes.
ListenEvents_bind_kwargs == {"answer_handler", "stop_handler", "dial_handler"}
\* A call with a keyword the signature lacks raises TypeError before the body runs.
Channel_add_handlers(ch, kwargs, answer, stop) ==
    IF kwargs \subseteq Channel_add_handlers_params
    THEN [ok |-> TRUE,
          channel |-> [ch EXCEPT !.answer_handler = answer, !.stop_handler = stop]]
    ELSE [ok |-> FALSE, channel |-> ch]

\* (Variant: create_with_handlers stores the two handlers the other way round.)
Channel_create_with_handlers_swapped(kwargs, answer, stop, c) ==
    [ok |-> TRUE,
     channel |-> [Channel_model_validate(c) EXCEPT !.answer_handler = stop,
                                                    !.stop_handler = answer]]

\* Channel.create_with_handlers(cls, answer_handler, stop_handler, obj):
\* validation, then the two private attributes are set.
Channel_create_with_handlers_params == {"answer_handler", "stop_handler", "obj"}
\* The keywords the controller passes (create_channel, create_external_media,
\* originate, originate_with_id).
Controller_create_kwargs == {"answer_handler", "stop_handler", "dial_handler", "obj"}
Channel_create_with_handlers(kwargs, answer, stop, c) ==
    IF kwargs \subseteq Channel_create_with_handlers_params
    THEN [ok |-> TRUE,
          channel |-> [Channel_model_validate(c) EXCEPT !.answer_handler = answer,
                                                         !.stop_handler = stop]]
    ELSE [ok |-> FALSE, channel |-> NoChannel]

\* What the class Channel defines besides its fields: a name it lacks raises
\* AttributeError.
Channel_methods == {"create_with_handlers", "add_handlers", "answer", "stop"}

\* A Bridge as plain validation produces it, from the response object (its id
\* and its list of channel ids): both private handlers are None.
BridgeObjs == {[id |-> b, channels |-> cs] : b \in Bridges, cs \in {<<>>, <<"c1">>}}
Bridge_model_validate(obj) ==
    [id |-> obj.id, channels |-> obj.channels,
     stop_handler |-> None, add_channel_handler |-> None]
NoBridge ==
    [id |-> None, channels |-> <<>>, stop_handler |-> None, add_channel_handler |-> None]

\* Bridge.create_with_handlers(cls, stop_handler, add_channel_handler, obj)
Bridge_create_with_handlers(stop, add_channel, obj) ==
    [Bridge_model_validate(obj) EXCEPT !.stop_handler = stop,
                                       !.add_channel_handler = add_channel]

\* ---------------------------------------------------------------- state
VARIABLES
    controller,            \* self.controller: 0 is None, k the controller of connect k
    app,                   \* self.app
    ws,                    \* self.ws: 0 is None, k the connection of connect k
    event_listener,        \* self.event_listener: 0 is None, k the loop task of connect k
    stasis_start_handler,  \* self.stasis_start_handler
    stasis_end_handler,    \* self.stasis_end_handler
    conn,                  \* the transport of each connection
    connecting,            \* the connect() call suspended in websockets.connect, or 0
    nconn,                 \* connect() calls so far
    loops,                 \* the __listen_events task of each connect
    tasks,                 \* the handler tasks __dispatch has created
    nread,                 \* messages recv() has returned so far
    last_registered,       \* history: the last handler passed to each registration
    channel,               \* a Channel object in the hands of a caller
    bridge,                \* a Bridge object in the hands of a caller
    bindings,              \* history: the handlers each object was given, oldest first
    op,                    \* history: the last call made on or for an object
    called,                \* the capability invocations the last call made, in order
    raised                 \* the exception the last call raised, or None

\* The client and what it runs.
program == <<controller, app, ws, event_listener, stasis_start_handler, stasis_end_handler,
             conn, connecting, nconn, loops, tasks, nread, last_registered>>
\* The entity objects a caller holds and the record of the calls on them.
entities == <<channel, bridge, bindings, op, called, raised>>

vars == <<controller, app, ws, event_listener, stasis_start_handler, stasis_end_handler,
          conn, connecting, nconn, loops, tasks, nread, last_registered,
          channel, bridge, bindings, op, called, raised>>

client == <<controller, app, ws, event_listener>>
registry == <<stasis_start_handler, stasis_end_handler, last_registered>>

\* No object has been given handlers; no call has been made.
NoBindings == [channel |-> <<>>, bridge |-> <<>>]
NoOp == [name |-> None, arg |-> None]

\* A loop task: where it is (pc), the connection its recv() waits on, the
\* locals `message` and the decoded event's channel, the exception being
\* handled, whether cancel() is pending; idx numbers the message in hand,
\* sawMalformed records that an undecodable message was read before, and
\* disconnected that disconnect() has been called with this task as listener.
NoLoop ==
    [pc |-> "none", on |-> 0, message |-> NoMsg, idx |-> 0, event |-> NoChannel,
     exc |-> None, cancel |-> FALSE, sawMalformed |-> FALSE, disconnected |-> FALSE]

Init ==
    /\ controller = 0
    /\ app = None
    /\ ws = 0
    /\ event_listener = 0
    /\ stasis_start_handler = None
    /\ stasis_end_handler = None
    /\ conn = [k \in ConnIds |-> "unused"]
    /\ connecting = 0
    /\ nconn = 0
    /\ loops = [k \in ConnIds |-> NoLoop]
    /\ tasks = {}
    /\ nread = 0
    /\ last_registered = [k \in EventType |-> None]
    /\ channel = NoChannel
    /\ bridge = NoBridge
    /\ bindings = NoBindings
    /\ op = NoOp
    /\ called = <<>>
    /\ raised = None

\* No coroutine is between two suspensions: every loop task is unborn, not yet
\* started, suspended in recv(), or finished.  (The other places of a loop
\* task: "top", about to call recv(); "validate", "dispatch", "bind", the
\* statements of the inner try; "except", the inner handler.)
\* ("faulted": an exception left the task.)
Suspended == {"none", "created", "recv", "cancelled", "faulted"}
Quiet == \A k \in ConnIds : loops[k].pc \in Suspended

\* ------------------------------------------------------ connect, disconnect
\* The property `ari`: ValueError while self.controller is None, else the
\* controller.
ari ==
    IF controller = 0
    THEN [raised |-> "Not connected to Asterisk", value |-> 0]
    ELSE [raised |-> None, value |-> controller]

\* connect(), up to its suspension in `await websockets.connect(url)`.
ConnectBegin(a) ==
    /\ Quiet
    /\ connecting = 0
    /\ nconn < MaxConnects
    /\ app' = a
    /\ controller' = nconn + 1
    /\ connecting' = nconn + 1
    /\ nconn' = nconn + 1
    /\ UNCHANGED <<entities, ws, event_listener, registry, conn, loops, tasks, nread>>

\* connect() called again on a client that has connected before, with or
\* without a disconnect() in between: the same statements, nothing tested.
ConnectAgain(a) ==
    /\ Quiet
    /\ connecting = 0
    /\ nconn >= MaxConnects
    /\ nconn < MaxConnects + MaxReconnects
    /\ app' = a
    /\ controller' = nconn + 1
    /\ connecting' = nconn + 1
    /\ nconn' = nconn + 1
    /\ UNCHANGED <<entities, ws, event_listener, registry, conn, loops, tasks, nread>>

\* (Variant: connect() starts the loop without keeping the connection in
\* self.ws.)
ConnectOk_drops_ws ==
    /\ Quiet
    /\ connecting # 0
    /\ ws' = ws
    /\ conn' = [conn EXCEPT ![connecting] = "open"]
    /\ event_listener' = connecting
    /\ loops' = [loops EXCEPT ![connecting].pc = "created"]
    /\ connecting' = 0
    /\ UNCHANGED <<entities, controller, app, registry, nconn, tasks, nread>>

\* websockets.connect returned: the rest of connect().
ConnectOk ==
    /\ Quiet
    /\ connecting # 0
    /\ ws' = connecting
    /\ conn' = [conn EXCEPT ![connecting] = "open"]
    /\ event_listener' = connecting
    /\ loops' = [loops EXCEPT ![connecting].pc = "created"]
    /\ connecting' = 0
    /\ UNCHANGED <<entities, controller, app, registry, nconn, tasks, nread>>

\* websockets.connect raised: connect() ends there, the exception is the caller's.
ConnectFail ==
    /\ Quiet
    /\ connecting # 0
    /\ connecting' = 0
    /\ UNCHANGED <<entities, client, registry, conn, nconn, loops, tasks, nread>>

\* (Variant: disconnect() closes the transport and leaves the listener alone.)
Disconnect_close_only ==
    /\ Quiet
    /\ nconn > 0
    /\ loops' = IF event_listener # 0
                THEN [loops EXCEPT ![event_listener].disconnected = TRUE]
                ELSE loops
    /\ conn' = IF ws # 0 THEN [conn EXCEPT ![ws] = "closed"] ELSE conn
    /\ UNCHANGED <<entities, client, registry, connecting, nconn, tasks, nread>>

\* (Variant: disconnect() also cancels the handler tasks that are still running.)
Disconnect_cancels_handlers ==
    /\ Quiet
    /\ nconn > 0
    /\ loops' = IF event_listener # 0
                THEN [loops EXCEPT ![event_listener].cancel =
                                       loops[event_listener].pc \in {"created", "recv"},
                                   ![event_listener].disconnected = TRUE]
                ELSE loops
    /\ conn' = IF ws # 0 THEN [conn EXCEPT ![ws] = "closed"] ELSE conn
    /\ tasks' = {IF t.pc = "running" THEN [t EXCEPT !.pc = "cancelled"] ELSE t : t \in tasks}
    /\ UNCHANGED <<entities, client, registry, connecting, nconn, nread>>

\* disconnect(): cancel the listener if there is one, then close self.ws
\* (with self.ws None the close raises AttributeError, after the cancel).
Disconnect ==
    /\ Quiet
    /\ nconn > 0
    /\ loops' = IF event_listener # 0
                THEN [loops EXCEPT ![event_listener].cancel =
                                       loops[event_listener].pc \in {"created", "recv"},
                                   ![event_listener].disconnected = TRUE]
                ELSE loops
    /\ conn' = IF ws # 0 THEN [conn EXCEPT ![ws] = "closed"] ELSE conn
    /\ UNCHANGED <<entities, client, registry, connecting, nconn, tasks, nread>>

\* The peer or the network ends a connection.
TransportFail(k) ==
    /\ Quiet
    /\ conn[k] = "open"
    /\ conn' = [conn EXCEPT ![k] = "failed"]
    /\ UNCHANGED <<entities, client, registry, connecting, nconn, loops, tasks, nread>>

\* What on_stasis_start(handler) / on_stasis_end(handler) leaves in the slot
\* and what it returns: the inner function `decorator` when handler is None.
Registration_call(slot, handler) ==
    IF handler = None
    THEN [slot |-> slot, returns |-> "decorator"]
    ELSE [slot |-> handler, returns |-> handler]

\* (Variant: the inner function has no `return func`.)
Registration_decorator_returns_none(slot, func) == [slot |-> func, returns |-> None]

\* The inner function: decorator(func).
Registration_decorator(slot, func) == [slot |-> func, returns |-> func]

\* `@client.on_stasis_start` above `def func`: the attribute is read, and
\* Python calls what it got with func.  The attribute is the bound method,
\* so the call is on_stasis_start(func).  Written with parentheses,
\* `@client.on_stasis_start()`, the call returns `decorator` and Python
\* calls that with func.
Registration_decorated(slot, func, parentheses) ==
    IF parentheses
    THEN Registration_decorator(Registration_call(slot, None).slot, func)
    ELSE Registration_call(slot, func)

\* ------------------------------------------------------------- registry
\* (Variant: a registration that keeps the handler already registered.)
on_stasis_start_keeps_first(handler) ==
    /\ Quiet
    /\ IF handler = None
       THEN UNCHANGED <<stasis_start_handler, last_registered>>
       ELSE /\ stasis_start_handler' =
                  IF stasis_start_handler = None THEN handler ELSE stasis_start_handler
            /\ last_registered' = [last_registered EXCEPT ![STASIS_START] = handler]
    /\ UNCHANGED <<entities, client, stasis_end_handler, conn, connecting, nconn, loops, tasks, nread>>

\* (Variant: a registration replays the last delivered message to the new
\* handler when nothing was launched for it.)
on_stasis_start_replays(handler) ==
    /\ Quiet
    /\ IF handler = None
       THEN UNCHANGED <<stasis_start_handler, last_registered, tasks>>
       ELSE /\ stasis_start_handler' = handler
            /\ last_registered' = [last_registered EXCEPT ![STASIS_START] = handler]
            /\ tasks' = IF nread > 0 /\ {t \in tasks : t.idx = nread} = {}
                        THEN tasks \cup
                             {[id |-> Cardinality(tasks) + 1, idx |-> nread, loop |-> 1,
                               slot |-> "stasis_start_handler", handler |-> handler,
                               kind |-> STASIS_START, channel |-> NoChannel,
                               pc |-> "running", exc |-> None, answers |-> 0,
                               calls |-> <<>>]}
                        ELSE tasks
    /\ UNCHANGED <<entities, client, stasis_end_handler, conn, connecting, nconn, loops, nread>>

on_stasis_start(handler) ==
    /\ Quiet
    /\ IF handler = None
       THEN UNCHANGED <<stasis_start_handler, last_registered>>   \* returns the decorator
       ELSE /\ stasis_start_handler' = handler
            /\ last_registered' = [last_registered EXCEPT ![STASIS_START] = handler]
    /\ UNCHANGED <<entities, client, stasis_end_handler, conn, connecting, nconn, loops, tasks, nread>>

\* (Variant: the handler argument is stored whatever it is, None included.)
on_stasis_end_stores_none(handler) ==
    /\ Quiet
    /\ stasis_end_handler' = handler
    /\ last_registered' = IF handler = None THEN last_registered
                          ELSE [last_registered EXCEPT ![STASIS_END] = handler]
    /\ UNCHANGED <<entities, client, stasis_start_handler, conn, connecting, nconn, loops, tasks, nread>>

on_stasis_end(handler) ==
    /\ Quiet
    /\ IF handler = None
       THEN UNCHANGED <<stasis_end_handler, last_registered>>
       ELSE /\ stasis_end_handler' = handler
            /\ last_registered' = [last_registered EXCEPT ![STASIS_END] = handler]
    /\ UNCHANGED <<entities, client, stasis_start_handler, conn, connecting, nconn, loops, tasks, nread>>

\* The application registers func for a kind of event, in one of the forms:
\* the call on_stasis_start(func), `@client.on_stasis_start` above the
\* function, or `@client.on_stasis_start()` above it.
RegistrationForms == {"call", "decorator", "decorator()"}
Register(kind, func, form) ==
    LET slot == IF kind = STASIS_START THEN stasis_start_handler ELSE stasis_end_handler
        r == IF form = "call"
             THEN Registration_call(slot, func)
             ELSE Registration_decorated(slot, func, form = "decorator()")
    IN
    /\ Quiet
    /\ IF kind = STASIS_START
       THEN stasis_start_handler' = r.slot /\ UNCHANGED stasis_end_handler
       ELSE stasis_end_handler' = r.slot /\ UNCHANGED stasis_start_handler
    /\ last_registered' = [last_registered EXCEPT ![kind] = r.slot]
    /\ op' = [name |-> IF kind = STASIS_START THEN "on_stasis_start" ELSE "on_stasis_end",
              arg |-> func, form |-> form, returned |-> r.returns]
    /\ called' = <<>>
    /\ raised' = None
    /\ UNCHANGED <<client, conn, connecting, nconn, loops, tasks, nread,
                   channel, bridge, bindings>>

\* -------------------------------------------------------- the dispatch loop
\* The top of `while True`: the locals of the last iteration are dead.
AtTop(lp) ==
    [lp EXCEPT !.pc = "top", !.message = NoMsg, !.idx = 0, !.event = NoChannel, !.exc = None]

\* The event loop runs the new task for the first time.
LoopStart(l) ==
    /\ Quiet
    /\ loops[l].pc = "created"
    /\ ~loops[l].cancel
    /\ loops' = [loops EXCEPT ![l] = AtTop(loops[l])]
    /\ UNCHANGED <<entities, client, registry, conn, connecting, nconn, tasks, nread>>

\* `await self.ws.recv()` on the current self.ws: the task is suspended until
\* the connection has something for it.  A connection lets one coroutine
\* wait in recv(); the call of a second one raises RuntimeError at once.
CallRecv(l) ==
    /\ loops[l].pc = "top"
    /\ loops' = IF \E o \in ConnIds \ {l} : loops[o].pc = "recv" /\ loops[o].on = ws
                THEN [loops EXCEPT ![l].pc = "except", ![l].exc = "RuntimeError"]
                ELSE [loops EXCEPT ![l].pc = "recv", ![l].on = ws]
    /\ UNCHANGED <<entities, client, registry, conn, connecting, nconn, tasks, nread>>

\* (Variant: the transport hands its messages over in swapped pairs, the
\* second delivered before the first.)
Recv_pairs_swapped(l, m) ==
    /\ Quiet
    /\ loops[l].pc = "recv"
    /\ ~loops[l].cancel
    /\ loops[l].on # 0
    /\ conn[loops[l].on] = "open"
    /\ nread < MaxMsgs
    /\ nread' = nread + 1
    /\ loops' = [loops EXCEPT ![l].pc = "validate", ![l].message = m,
                     ![l].idx = IF nread % 2 = 0 THEN nread + 2 ELSE nread]
    /\ UNCHANGED <<entities, client, registry, conn, connecting, nconn, tasks>>

\* recv() returns the next message the transport delivers.
Recv(l, m) ==
    /\ Quiet
    /\ loops[l].pc = "recv"
    /\ ~loops[l].cancel
    /\ loops[l].on # 0
    /\ conn[loops[l].on] = "open"
    /\ nread < MaxMsgs
    /\ nread' = nread + 1
    /\ loops' = [loops EXCEPT ![l].pc = "validate", ![l].message = m, ![l].idx = nread + 1]
    /\ UNCHANGED <<entities, client, registry, conn, connecting, nconn, tasks>>

\* recv() raises ConnectionClosed (a WebSocketException): the connection has
\* failed or was closed.  The raise is inside the inner try.
RecvFault(l) ==
    /\ Quiet
    /\ loops[l].pc = "recv"
    /\ ~loops[l].cancel
    /\ loops[l].on # 0
    /\ conn[loops[l].on] \in {"failed", "closed"}
    /\ loops' = [loops EXCEPT ![l].pc = "except", ![l].exc = "ConnectionClosed"]
    /\ UNCHANGED <<entities, client, registry, conn, connecting, nconn, tasks, nread>>

\* (Variant: CancelledError is caught by the inner `except Exception`.)
LoopCancelled_swallowed(l) ==
    /\ Quiet
    /\ loops[l].pc \in {"created", "recv"}
    /\ loops[l].cancel
    /\ loops' = [loops EXCEPT ![l].pc = "except", ![l].exc = "CancelledError",
                              ![l].cancel = FALSE]
    /\ UNCHANGED <<entities, client, registry, conn, connecting, nconn, tasks, nread>>

\* The pending cancel() is delivered: CancelledError is no Exception, so only
\* the outer `except asyncio.CancelledError` sees it, and re-raises.
LoopCancelled(l) ==
    /\ Quiet
    /\ loops[l].pc \in {"created", "recv"}
    /\ loops[l].cancel
    /\ loops' = [loops EXCEPT ![l].pc = "cancelled", ![l].cancel = FALSE]
    /\ UNCHANGED <<entities, client, registry, conn, connecting, nconn, tasks, nread>>

\* (Variant: a message that fails validation ends the loop task.)
Validate_propagates(l) ==
    /\ loops[l].pc = "validate"
    /\ loops' = IF Event_model_validate_json(loops[l].message).ok
                THEN [loops EXCEPT ![l].pc = "dispatch"]
                ELSE [loops EXCEPT ![l].pc = "faulted", ![l].exc = "ValidationError",
                                   ![l].sawMalformed = TRUE]
    /\ UNCHANGED <<entities, client, registry, conn, connecting, nconn, tasks, nread>>

\* event = Event.model_validate_json(message)
Validate(l) ==
    /\ loops[l].pc = "validate"
    /\ loops' = IF Event_model_validate_json(loops[l].message).ok
                THEN [loops EXCEPT ![l].pc = "dispatch"]
                ELSE [loops EXCEPT ![l].pc = "except", ![l].exc = "ValidationError",
                                   ![l].sawMalformed = TRUE]
    /\ UNCHANGED <<entities, client, registry, conn, connecting, nconn, tasks, nread>>

\* (Variant: both branches pass self.stasis_start_handler.)
SlotFor_start_only(type) == "stasis_start_handler"

\* The registry slot each branch of __listen_events passes to __dispatch.
SlotFor(type) == IF type = STASIS_START THEN "stasis_start_handler" ELSE "stasis_end_handler"
SlotValue(slot) ==
    IF slot = "stasis_start_handler" THEN stasis_start_handler ELSE stasis_end_handler

\* (Variant: nothing is launched for a channel while an invocation for that
\* channel is still running.)
Launch_one_per_channel(l, idx, type, slot, ch) ==
    IF SlotValue(slot) # None /\ ~\E t \in tasks : t.pc = "running" /\ t.channel.id = ch.id
    THEN {[id |-> Cardinality(tasks) + 1, idx |-> idx, loop |-> l, slot |-> slot,
           handler |-> SlotValue(slot), kind |-> type, channel |-> ch,
           pc |-> "running", exc |-> None, answers |-> 0, calls |-> <<>>]}
    ELSE {}

\* __dispatch after validation: `if handler: create_task(handler(event))`.
\* The tasks it creates for message idx of loop l.
Launch(l, idx, type, slot, ch) ==
    IF SlotValue(slot) # None
    THEN {[id |-> Cardinality(tasks) + 1, idx |-> idx, loop |-> l, slot |-> slot,
           handler |-> SlotValue(slot), kind |-> type, channel |-> ch,
           pc |-> "running", exc |-> None, answers |-> 0, calls |-> <<>>]}
    ELSE {}

\* The branch on event.type and the call of __dispatch: typed validation,
\* then the launch.  Any other type is logged at debug level.
Dispatch(l) ==
    LET m == loops[l].message
        type == Event_model_validate_json(m).type
    IN
    /\ loops[l].pc = "dispatch"
    /\ IF type \in EventType
       THEN IF Typed_model_validate_json(SchemaOf(type), m)
            THEN /\ tasks' = tasks \cup Launch(l, loops[l].idx, type, SlotFor(type),
                                               Channel_model_validate(m.channel))
                 /\ loops' = [loops EXCEPT ![l].pc = "bind",
                                  ![l].event = Channel_model_validate(m.channel)]
            ELSE /\ tasks' = tasks
                 /\ loops' = [loops EXCEPT ![l].pc = "except", ![l].exc = "ValidationError"]
       ELSE /\ tasks' = tasks
            /\ loops' = [loops EXCEPT ![l] = AtTop(loops[l])]
    /\ UNCHANGED <<entities, client, registry, conn, connecting, nconn, nread>>

\* (Variant: __dispatch awaits the handler it has started.)
Awaited_handler(l) == {t \in tasks : t.loop = l}

\* The handler tasks loop l waits for before it goes on: __dispatch calls
\* create_task and add_done_callback, and awaits neither.
Awaited(l) == {}

\* `if self.controller: event.channel.add_handlers(...)`.  The channel is the
\* object the launched handler holds, so a binding reaches that task too.
Bind(l) ==
    LET r == Channel_add_handlers(loops[l].event, ListenEvents_bind_kwargs,
                                  "answer_channel", "stop_channel")
    IN
    /\ loops[l].pc = "bind"
    /\ \A t \in Awaited(l) : t.pc # "running"
    /\ IF controller # 0
       THEN IF r.ok
            THEN /\ loops' = [loops EXCEPT ![l] = AtTop(loops[l])]
                 /\ tasks' = {IF t.idx = loops[l].idx THEN [t EXCEPT !.channel = r.channel] ELSE t
                               : t \in tasks}
            ELSE /\ loops' = [loops EXCEPT ![l].pc = "except", ![l].exc = "TypeError"]
                 /\ tasks' = tasks
       ELSE /\ loops' = [loops EXCEPT ![l] = AtTop(loops[l])]
            /\ tasks' = tasks
    /\ UNCHANGED <<entities, client, registry, conn, connecting, nconn, nread>>

\* (Variant: the inner handler logs and re-raises.)
Except_reraises(l) ==
    /\ loops[l].pc = "except"
    /\ loops' = [loops EXCEPT ![l].pc = "faulted"]
    /\ UNCHANGED <<entities, client, registry, conn, connecting, nconn, tasks, nread>>

\* The inner `except Exception`: logger.error, then continue to the next recv().
Except(l) ==
    /\ loops[l].pc = "except"
    /\ loops' = [loops EXCEPT ![l] = AtTop(loops[l])]
    /\ UNCHANGED <<entities, client, registry, conn, connecting, nconn, tasks, nread>>

\* ------------------------------------------------------------ handler tasks
\* Channel.answer(): ValueError without a handler, else the handler is called
\* with the channel's id.
Channel_answer(ch) ==
    IF ch.answer_handler = None
    THEN [raised |-> TRUE, call |-> <<>>]
    ELSE [raised |-> FALSE, call |-> <<ch.answer_handler, ch.id>>]

\* The handler awaits event.channel.answer(); the capability answers with an
\* HTTP status, and any status but 204 raises.
HandlerAnswer(t, status) ==
    LET r == Channel_answer(t.channel) IN
    /\ Quiet
    /\ t.pc = "running"
    /\ t.answers < MaxAnswers
    /\ tasks' = (tasks \ {t}) \cup
         {IF r.raised
          THEN [t EXCEPT !.answers = @ + 1, !.pc = "raised", !.exc = "Answer handler not set"]
          ELSE IF status = 204
               THEN [t EXCEPT !.answers = @ + 1, !.calls = Append(@, r.call)]
               ELSE [t EXCEPT !.answers = @ + 1, !.calls = Append(@, r.call),
                              !.pc = "raised", !.exc = "Failed to answer channel"]}
    /\ UNCHANGED <<entities, client, registry, conn, connecting, nconn, loops, nread>>

\* The handler returns.
HandlerReturn(t) ==
    /\ Quiet
    /\ t.pc = "running"
    /\ tasks' = (tasks \ {t}) \cup {[t EXCEPT !.pc = "done"]}
    /\ UNCHANGED <<entities, client, registry, conn, connecting, nconn, loops, nread>>

\* The handler raises an exception of its own.
HandlerRaise(t) ==
    /\ Quiet
    /\ t.pc = "running"
    /\ tasks' = (tasks \ {t}) \cup {[t EXCEPT !.pc = "raised", !.exc = "HandlerError"]}
    /\ UNCHANGED <<entities, client, registry, conn, connecting, nconn, loops, nread>>

\* (Variant: the exception of a failed handler is raised into the loop task.)
HandleTaskException_reraises(t) ==
    /\ Quiet
    /\ t.pc \in {"done", "raised"}
    /\ tasks' = (tasks \ {t}) \cup {[t EXCEPT !.pc = "supervised"]}
    /\ loops' = IF t.pc = "raised"
                THEN [loops EXCEPT ![t.loop].pc = "faulted", ![t.loop].exc = t.exc]
                ELSE loops
    /\ UNCHANGED <<entities, client, registry, conn, connecting, nconn, nread>>

\* The done callback: task.result() re-raises inside the callback, which logs
\* the exception and returns.
HandleTaskException(t) ==
    /\ Quiet
    /\ t.pc \in {"done", "raised"}
    /\ tasks' = (tasks \ {t}) \cup {[t EXCEPT !.pc = "supervised"]}
    /\ UNCHANGED <<entities, client, registry, conn, connecting, nconn, loops, nread>>

\* BaseModel.__eq__ on two Channels / two Bridges: the classes define no
\* __eq__ of their own, and the inherited one compares the fields and the
\* private attributes, which is where the handlers are kept.
Channel_eq(a, b) ==
    /\ a.id = b.id
    /\ a.answer_handler = b.answer_handler
    /\ a.stop_handler = b.stop_handler

Bridge_eq(a, b) ==
    /\ a.id = b.id
    /\ a.channels = b.channels
    /\ a.stop_handler = b.stop_handler
    /\ a.add_channel_handler = b.add_channel_handler

\* ------------------------------------------------------------ entity objects
\* Channel.stop(): ValueError without a handler, else the handler is called
\* with the channel's id.
Channel_stop(ch) ==
    IF ch.stop_handler = None
    THEN [raised |-> TRUE, call |-> <<>>]
    ELSE [raised |-> FALSE, call |-> <<ch.stop_handler, ch.id>>]

\* Channel has the attribute.
Channel_getattr(name) == name \in Channel_methods

\* (Variant: stop() returns without a word when no handler is set.)
Bridge_stop_silent(b) ==
    IF b.stop_handler = None
    THEN [raised |-> FALSE, call |-> <<>>]
    ELSE [raised |-> FALSE, call |-> <<b.stop_handler, b.id>>]

\* Bridge.stop()
Bridge_stop(b) ==
    IF b.stop_handler = None
    THEN [raised |-> TRUE, call |-> <<>>]
    ELSE [raised |-> FALSE, call |-> <<b.stop_handler, b.id>>]

\* (Variant: the handler is called with (channel_id, bridge id).)
Bridge_add_channel_swapped(b, channel_id) ==
    IF b.add_channel_handler = None
    THEN [raised |-> TRUE, call |-> <<>>]
    ELSE [raised |-> FALSE, call |-> <<b.add_channel_handler, channel_id, b.id>>]

\* Bridge.add_channel(channel_id)
Bridge_add_channel(b, channel_id) ==
    IF b.add_channel_handler = None
    THEN [raised |-> TRUE, call |-> <<>>]
    ELSE [raised |-> FALSE, call |-> <<b.add_channel_handler, b.id, channel_id>>]

\* How a call of an entity method ends: the ValueError of the method, or what
\* the awaited handler did (it returns, or it raises and the method lets the
\* exception through).
MethodRaised(r, message, result) ==
    IF r.raised THEN message
    ELSE IF result = "raise" THEN "CapabilityError" ELSE None
MethodCalled(r) == IF r.raised THEN <<>> ELSE <<r.call>>

\* A caller validates a plain object: Channel.model_validate(obj).
ValidateChannel(c) ==
    /\ channel' = Channel_model_validate(c)
    /\ bindings' = [bindings EXCEPT !.channel = <<>>]
    /\ op' = [name |-> "Channel.model_validate", arg |-> c]
    /\ called' = <<>>
    /\ raised' = None
    /\ UNCHANGED <<program, bridge>>

\* A caller builds a channel: Channel.create_with_handlers(a, s, obj).
CreateChannelWithHandlers(a, s, c) ==
    LET r == Channel_create_with_handlers(Channel_create_with_handlers_params, a, s, c) IN
    /\ channel' = r.channel
    /\ bindings' = [bindings EXCEPT !.channel =
                        <<[by |-> "create_with_handlers", answer |-> a, stop |-> s, obj |-> c]>>]
    /\ op' = [name |-> "Channel.create_with_handlers", arg |-> c]
    /\ called' = <<>>
    /\ raised' = None
    /\ UNCHANGED <<program, bridge>>

\* controller.create_channel (create_external_media, originate and
\* originate_with_id end the same way): the POST, the status test, then
\* Channel.create_with_handlers with the controller's own methods.
ControllerCreateChannel(c, status) ==
    LET r == Channel_create_with_handlers(Controller_create_kwargs,
                                          "answer_channel", "stop_channel", c)
    IN
    /\ op' = [name |-> "create_channel", arg |-> c]
    /\ called' = <<>>
    /\ IF status >= 300
       THEN /\ raised' = "Failed to create channel"
            /\ UNCHANGED <<channel, bindings>>
       ELSE IF r.ok
            THEN /\ raised' = None
                 /\ channel' = r.channel
                 /\ bindings' = [bindings EXCEPT !.channel =
                                     <<[by |-> "create_channel", answer |-> "answer_channel",
                                        stop |-> "stop_channel", obj |-> c]>>]
            ELSE /\ raised' = "TypeError"
                 /\ UNCHANGED <<channel, bindings>>
    /\ UNCHANGED <<program, bridge>>

\* channel.add_handlers(a, s) on the object the caller holds.
AddHandlers(a, s) ==
    LET r == Channel_add_handlers(channel, Channel_add_handlers_params, a, s) IN
    /\ channel # NoChannel
    /\ Len(bindings.channel) < MaxBinds
    /\ channel' = r.channel
    /\ bindings' = [bindings EXCEPT !.channel =
                        Append(@, [by |-> "add_handlers", answer |-> a, stop |-> s,
                                   obj |-> channel.id])]
    /\ op' = [name |-> "Channel.add_handlers", arg |-> None]
    /\ called' = <<>>
    /\ raised' = None
    /\ UNCHANGED <<program, bridge>>

\* await channel.answer()
ChannelAnswer(result) ==
    LET r == Channel_answer(channel) IN
    /\ channel # NoChannel
    /\ op' = [name |-> "Channel.answer", arg |-> None]
    /\ called' = MethodCalled(r)
    /\ raised' = MethodRaised(r, "Answer handler not set", result)
    /\ UNCHANGED <<program, channel, bridge, bindings>>

\* await channel.stop()
ChannelStop(result) ==
    LET r == Channel_stop(channel) IN
    /\ channel # NoChannel
    /\ op' = [name |-> "Channel.stop", arg |-> None]
    /\ called' = MethodCalled(r)
    /\ raised' = MethodRaised(r, "Stop handler not set", result)
    /\ UNCHANGED <<program, channel, bridge, bindings>>

\* await channel.dial(caller, timeout): the attribute lookup comes first.
ChannelDial ==
    /\ channel # NoChannel
    /\ op' = [name |-> "Channel.dial", arg |-> None]
    /\ called' = <<>>
    /\ raised' = IF Channel_getattr("dial") THEN None ELSE "AttributeError"
    /\ UNCHANGED <<program, channel, bridge, bindings>>

\* Bridge.model_validate(obj)
ValidateBridge(obj) ==
    /\ bridge' = Bridge_model_validate(obj)
    /\ bindings' = [bindings EXCEPT !.bridge = <<>>]
    /\ op' = [name |-> "Bridge.model_validate", arg |-> obj.id]
    /\ called' = <<>>
    /\ raised' = None
    /\ UNCHANGED <<program, channel>>

\* Bridge.create_with_handlers(s, ac, obj)
CreateBridgeWithHandlers(s, ac, obj) ==
    /\ bridge' = Bridge_create_with_handlers(s, ac, obj)
    /\ bindings' = [bindings EXCEPT !.bridge =
                        <<[by |-> "create_with_handlers", stop |-> s, add_channel |-> ac,
                           obj |-> obj.id]>>]
    /\ op' = [name |-> "Bridge.create_with_handlers", arg |-> obj.id]
    /\ called' = <<>>
    /\ raised' = None
    /\ UNCHANGED <<program, channel>>

\* controller.create_bridge: the POST, the status test, then
\* Bridge.create_with_handlers with the controller's own methods.
ControllerCreateBridge(obj, status) ==
    /\ op' = [name |-> "create_bridge", arg |-> obj.id]
    /\ called' = <<>>
    /\ IF status # 200
       THEN /\ raised' = "Failed to create bridge"
            /\ UNCHANGED <<bridge, bindings>>
       ELSE /\ raised' = None
            /\ bridge' = Bridge_create_with_handlers("stop_bridge", "bridge_add_channel", obj)
            /\ bindings' = [bindings EXCEPT !.bridge =
                                <<[by |-> "create_bridge", stop |-> "stop_bridge",
                                   add_channel |-> "bridge_add_channel", obj |-> obj.id]>>]
    /\ UNCHANGED <<program, channel>>

\* await bridge.stop()
BridgeStop(result) ==
    LET r == Bridge_stop(bridge) IN
    /\ bridge # NoBridge
    /\ op' = [name |-> "Bridge.stop", arg |-> None]
    /\ called' = MethodCalled(r)
    /\ raised' = MethodRaised(r, "Stop handler not set", result)
    /\ UNCHANGED <<program, channel, bridge, bindings>>

\* (Variant: add_channel keeps its own record of the members: it appends the
\* channel to `channels` when the handler has returned.)
BridgeAddChannel_appends(channel_id, result) ==
    LET r == Bridge_add_channel(bridge, channel_id) IN
    /\ bridge # NoBridge
    /\ op' = [name |-> "Bridge.add_channel", arg |-> channel_id]
    /\ called' = MethodCalled(r)
    /\ raised' = MethodRaised(r, "Add channel handler not set", result)
    /\ bridge' = IF MethodRaised(r, "Add channel handler not set", result) = None
                    /\ Len(bridge.channels) < 2
                 THEN [bridge EXCEPT !.channels = Append(@, channel_id)]
                 ELSE bridge
    /\ UNCHANGED <<program, channel, bindings>>

\* await bridge.add_channel(channel_id)
BridgeAddChannel(channel_id, result) ==
    LET r == Bridge_add_channel(bridge, channel_id) IN
    /\ bridge # NoBridge
    /\ op' = [name |-> "Bridge.add_channel", arg |-> channel_id]
    /\ called' = MethodCalled(r)
    /\ raised' = MethodRaised(r, "Add channel handler not set", result)
    /\ UNCHANGED <<program, channel, bridge, bindings>>

\* ------------------------------------------- the controller's capabilities
\* The five calls an entity handler stands for, each one HTTP request.
Capabilities == {"answer_channel", "stop_channel", "dial", "stop_bridge", "bridge_add_channel"}
StatusCodes == {200, 204, 301, 404, 500}   \* response.status_code
Bodies == {"", "not found"}              \* response.text

\* The arguments a capability is called with: a channel id, a bridge id, or
\* a bridge id and a channel id.
Capability_args(cap) ==
    IF cap = "stop_bridge" THEN {<<b>> : b \in Bridges}
    ELSE IF cap = "bridge_add_channel" THEN {<<b, c>> : b \in Bridges, c \in Channels}
    ELSE {<<c>> : c \in Channels}

\* The request: method, path and, for addChannel, the channel in the body.
Capability_request(cap, args) ==
    IF cap = "answer_channel" THEN <<"POST", "/channels", args[1], "answer">>
    ELSE IF cap = "stop_channel" THEN <<"DELETE", "/channels", args[1]>>
    ELSE IF cap = "dial" THEN <<"POST", "/channels", args[1], "dial">>
    ELSE IF cap = "stop_bridge" THEN <<"DELETE", "/bridges", args[1]>>
    ELSE <<"POST", "/bridges", args[1], "addChannel", args[2]>>

Capability_message(cap) ==
    IF cap = "answer_channel" THEN "Failed to answer channel"
    ELSE IF cap = "stop_channel" THEN "Failed to stop channel"
    ELSE IF cap = "dial" THEN "Failed to dial channel"
    ELSE IF cap = "stop_bridge" THEN "Failed to stop bridge"
    ELSE "Failed to add channel to bridge"

\* (Variant: every capability takes any status below 300 for success.)
Capability_succeeds_below_300(cap, status) == status < 300

\* The status test: `!= 204` raises, for dial `>= 300` raises.
Capability_succeeds(cap, status) ==
    IF cap = "dial" THEN ~(status >= 300) ELSE ~(status # 204)

\* One call: the requests it issues, the exception it raises (None when it
\* returns) and what the exception's message is formatted from.
Capability_call(cap, args, status, text) ==
    [requests |-> <<Capability_request(cap, args)>>,
     raised |-> IF Capability_succeeds(cap, status) THEN None ELSE Capability_message(cap),
     detail |-> IF Capability_succeeds(cap, status) THEN <<>> ELSE <<status, text>>]

\* A caller (a handler, or any code holding client.ari) awaits a capability
\* and the server answers with `status` and `text`.
CapabilityCall(cap, args, status, text) ==
    LET r == Capability_call(cap, args, status, text) IN
    /\ op' = [name |-> cap, arg |-> args[1], args |-> args,
              response |-> [status_code |-> status, text |-> text],
              detail |-> r.detail]
    /\ called' = r.requests
    /\ raised' = r.raised
    /\ UNCHANGED <<program, channel, bridge, bindings>>

\* ------------------------------------------------------------ timestamps
\* A timestamp string is a sequence: the date and time first, as one item,
\* then the characters that follow it (the UTC offset, when there is one).
DateTime == "2024-01-01T12:00:00"
Digits == {"0", "6"}
Signs == {"+", "-"}
DigitValue(d) == IF d = "6" THEN 6 ELSE 0
TwoDigits(s, i) == 10 * DigitValue(s[i]) + DigitValue(s[i + 1])
AllDigits(s) == \A i \in 1..Len(s) : s[i] \in Digits

\* (Variant: the replacement leaves out the sign, r'\2:\3'.)
re_sub_drops_sign(v) ==
    LET n == Len(v) IN
    IF n >= 5 /\ v[n - 4] \in Signs /\ AllDigits(SubSeq(v, n - 3, n))
    THEN SubSeq(v, 1, n - 5) \o SubSeq(v, n - 3, n - 2) \o <<":">> \o SubSeq(v, n - 1, n)
    ELSE v

\* re.sub(r'([+-])(\d{2})(\d{2})$', r'\1\2:\3', v): a sign and four digits
\* at the end of the string get a colon between the digit pairs.
re_sub(v) ==
    LET n == Len(v) IN
    IF n >= 5 /\ v[n - 4] \in Signs /\ AllDigits(SubSeq(v, n - 3, n))
    THEN SubSeq(v, 1, n - 2) \o <<":">> \o SubSeq(v, n - 1, n)
    ELSE v

\* The UTC offset datetime.fromisoformat reads after the sign, in seconds.
\* HH:MM and HH:MM:SS are read by every Python; HH, HHMM and HHMMSS only
\* from Python 3.11 on (`lenient`).  The fields are not range-checked.
utcoffset(s, lenient) ==
    IF Len(s) = 5 /\ s[3] = ":" /\ AllDigits(SubSeq(s, 1, 2) \o SubSeq(s, 4, 5))
    THEN [ok |-> TRUE, seconds |-> 3600 * TwoDigits(s, 1) + 60 * TwoDigits(s, 4)]
    ELSE IF Len(s) = 8 /\ s[3] = ":" /\ s[6] = ":"
            /\ AllDigits(SubSeq(s, 1, 2) \o SubSeq(s, 4, 5) \o SubSeq(s, 7, 8))
    THEN [ok |-> TRUE,
          seconds |-> 3600 * TwoDigits(s, 1) + 60 * TwoDigits(s, 4) + TwoDigits(s, 7)]
    ELSE IF lenient /\ Len(s) = 2 /\ AllDigits(s)
    THEN [ok |-> TRUE, seconds |-> 3600 * TwoDigits(s, 1)]
    ELSE IF lenient /\ Len(s) = 4 /\ AllDigits(s)
    THEN [ok |-> TRUE, seconds |-> 3600 * TwoDigits(s, 1) + 60 * TwoDigits(s, 3)]
    ELSE IF lenient /\ Len(s) = 6 /\ AllDigits(s)
    THEN [ok |-> TRUE,
          seconds |-> 3600 * TwoDigits(s, 1) + 60 * TwoDigits(s, 3) + TwoDigits(s, 5)]
    ELSE [ok |-> FALSE, seconds |-> 0]

\* A datetime: naive, or aware with its offset from UTC.  -00:00 is UTC.
NoInstant == [aware |-> FALSE, sign |-> None, seconds |-> 0]
Naive == [aware |-> FALSE, sign |-> "+", seconds |-> 0]
Aware(sign, seconds) ==
    [aware |-> TRUE, sign |-> IF seconds = 0 THEN "+" ELSE sign, seconds |-> seconds]

\* datetime.fromisoformat(v): ValueError for a string it cannot read and
\* for an offset of 24 hours or more.
datetime_fromisoformat(v, lenient) ==
    LET tail == SubSeq(v, 2, Len(v))
        off == utcoffset(SubSeq(tail, 2, Len(tail)), lenient)
    IN
    IF tail = <<>> THEN [raised |-> None, value |-> Naive]
    ELSE IF tail[1] \in Signs /\ off.ok /\ off.seconds < 86400
    THEN [raised |-> None, value |-> Aware(tail[1], off.seconds)]
    ELSE [raised |-> "ValueError", value |-> NoInstant]

\* validate_timestamp / validate_creationtime on a string.
Timestamp_validate(v, lenient) == datetime_fromisoformat(re_sub(v), lenient)

\* A caller validates a timestamp: the date and time alone, or the string
\* validated last with one more character.
ValidateTimestamp(c, lenient) ==
    LET v == IF op.name = "validate_timestamp" THEN Append(op.arg, c) ELSE <<DateTime>>
        r == Timestamp_validate(v, lenient)
    IN
    /\ op.name \in {None, "validate_timestamp"}
    /\ Len(v) <= MaxTail + 1
    /\ Len(v) = 2 => c \in Signs
    /\ Len(v) > 2 => c \in Digits \cup {":"}
    /\ op' = [name |-> "validate_timestamp", arg |-> v, lenient |-> lenient,
              value |-> r.value]
    /\ called' = <<>>
    /\ raised' = r.raised
    /\ UNCHANGED <<program, channel, bridge, bindings>>

\* ------------------------------------------------------------ specification
LoopStep(l) == CallRecv(l) \/ Validate(l) \/ Dispatch(l) \/ Bind(l) \/ Except(l)

Next ==
    \/ \E a \in Apps : ConnectBegin(a)
    \/ ConnectOk
    \/ ConnectFail
    \/ Disconnect
    \/ \E k \in ConnIds : TransportFail(k)
    \/ \E h \in Handlers \cup {None} : on_stasis_start(h)
    \/ \E h \in Handlers \cup {None} : on_stasis_end(h)
    \/ \E l \in ConnIds : LoopStart(l)
    \/ \E l \in ConnIds : CallRecv(l)
    \/ \E l \in ConnIds, m \in Messages : Recv(l, m)
    \/ \E l \in ConnIds : RecvFault(l)
    \/ \E l \in ConnIds : LoopCancelled(l)
    \/ \E l \in ConnIds : Validate(l)
    \/ \E l \in ConnIds : Dispatch(l)
    \/ \E l \in ConnIds : Bind(l)
    \/ \E l \in ConnIds : Except(l)
    \/ \E t \in tasks, status \in {204, 500} : HandlerAnswer(t, status)
    \/ \E t \in tasks : HandlerReturn(t)
    \/ \E t \in tasks : HandlerRaise(t)
    \/ \E t \in tasks : HandleTaskException(t)

Spec == Init /\ [][Next]_vars

\* The entity objects on their own: a caller builds Channel and Bridge
\* objects and calls their methods; the client stays as constructed.
EntityNext ==
    \/ \E c \in Channels : ValidateChannel(c)
    \/ \E a, s \in Callables, c \in Channels : CreateChannelWithHandlers(a, s, c)
    \/ \E c \in Channels, status \in {200, 500} : ControllerCreateChannel(c, status)
    \/ \E a, s \in Callables : AddHandlers(a, s)
    \/ \E result \in {"return", "raise"} : ChannelAnswer(result)
    \/ \E result \in {"return", "raise"} : ChannelStop(result)
    \/ ChannelDial
    \/ \E obj \in BridgeObjs : ValidateBridge(obj)
    \/ \E s, ac \in Callables, obj \in BridgeObjs : CreateBridgeWithHandlers(s, ac, obj)
    \/ \E obj \in BridgeObjs, status \in {200, 500} : ControllerCreateBridge(obj, status)
    \/ \E result \in {"return", "raise"} : BridgeStop(result)
    \/ \E c \in Channels, result \in {"return", "raise"} : BridgeAddChannel(c, result)

EntitySpec == Init /\ [][EntityNext]_vars

\* The controller's capabilities alone: each step is one call and the
\* server's answer to it.
CapabilityNext ==
    \E cap \in Capabilities : \E args \in Capability_args(cap) :
        \E status \in StatusCodes, text \in Bodies : CapabilityCall(cap, args, status, text)

CapabilitySpec == Init /\ [][CapabilityNext]_vars

\* The timestamp validator alone: each step validates one string.
TimestampNext ==
    \E c \in Signs \cup Digits \cup {":"}, lenient \in BOOLEAN : ValidateTimestamp(c, lenient)

TimestampSpec == Init /\ [][TimestampNext]_vars

\* The client's own interface, used in any order: connect() more than once,
\* disconnect(), registration in each form, with the loops reading what
\* the transport delivers.
LifecycleNext ==
    \/ \E a \in Apps : ConnectBegin(a)
    \/ \E a \in Apps : ConnectAgain(a)
    \/ ConnectOk
    \/ ConnectFail
    \/ Disconnect
    \/ \E k \in ConnIds : TransportFail(k)
    \/ \E kind \in EventType, func \in Handlers, form \in RegistrationForms :
          Register(kind, func, form)
    \/ \E l \in ConnIds : LoopStart(l)
    \/ \E l \in ConnIds : CallRecv(l)
    \/ \E l \in ConnIds, m \in LifecycleMessages : Recv(l, m)
    \/ \E l \in ConnIds : RecvFault(l)
    \/ \E l \in ConnIds : LoopCancelled(l)
    \/ \E l \in ConnIds : Validate(l)
    \/ \E l \in ConnIds : Dispatch(l)
    \/ \E l \in ConnIds : Bind(l)
    \/ \E l \in ConnIds : Except(l)

LifecycleSpec == Init /\ [][LifecycleNext]_vars

\* A coroutine that is running keeps running to its next suspension: the steps
\* of the loop between two recv() calls are taken.  Nothing is promised about
\* the transport, the application or the handlers.
FairSpec == Spec /\ \A l \in ConnIds : WF_vars(LoopStep(l))

\* The event loop also runs a task whose cancellation has been requested:
\* cancel() puts the task on the ready queue, which is served in order, and
\* disconnect() then suspends in ws.close().  The task is run the next time
\* no coroutine is running, however often others run in between.
LiveSpec ==
    Spec /\ \A l \in ConnIds : WF_vars(LoopStep(l)) /\ SF_vars(LoopCancelled(l))

\* ================================================================ properties
\* Kinds of message, stated on the message itself.
IsMalformed(m) == m # NoMsg /\ (~m.wellformed \/ m.type = "Missing")
IsValidKnown(m) ==
    /\ m.wellformed
    /\ m.type \in EventType
    /\ m.channel \in Channels
    /\ m.timestamp \in {"colon", "nocolon"}
    /\ (m.type = STASIS_START => m.asterisk_id)
IsUnknownKind(m) == m.wellformed /\ m.type \notin EventType \cup {"Missing", None}
IsKnownInvalid(m) == m.wellformed /\ m.type \in EventType /\ ~IsValidKnown(m)

\* The handler registered for a kind, read off the client's two attributes.
Registered(type) == IF type = STASIS_START THEN stasis_start_handler ELSE stasis_end_handler
\* The handler tasks launched for message number i.
TasksFor(i) == {t \in tasks : t.idx = i}
\* The loop has passed the point where __dispatch returned for the message in hand.
\* The places of a loop task in the body of its inner try.
Processing == {"validate", "dispatch", "bind", "except"}

\* ---- C1 ----------------------------------------------------------------
\* C1: malformed messages never halt the stream.  The per-message handler of
\* the loop, when it holds the decode failure of a malformed message, goes
\* back to the top of the loop, to call recv() again; and a valid known-kind message read after a malformed
\* one, with a handler registered for its kind, gets through validation and
\* has a handler task launched for it.
C1_AfterMalformedLaunched ==
    \A l \in ConnIds :
        LET lp == loops[l] IN
        (lp.sawMalformed /\ IsValidKnown(lp.message) /\ Registered(lp.message.type) # None)
            => /\ lp.pc \in {"validate", "dispatch", "bind", "except"}
               /\ (lp.pc \in {"bind", "except"} => TasksFor(lp.idx) # {})

C1_MalformedStepContinues ==
    \A l \in ConnIds :
        (loops[l].pc = "except" /\ IsMalformed(loops[l].message))
            => /\ loops[l].exc = "ValidationError"
               /\ loops'[l].pc = "top"
               /\ loops'[l].sawMalformed

C1_MalformedNeverHalts ==
    [](C1_AfterMalformedLaunched) /\ [][C1_MalformedStepContinues]_vars

C1_Witness ==
    \E l \in ConnIds :
        /\ loops[l].sawMalformed
        /\ loops[l].pc = "bind"
        /\ IsValidKnown(loops[l].message)
        /\ \E t \in TasksFor(loops[l].idx) : t.pc = "running"

\* ---- C2 ----------------------------------------------------------------
\* C2: a valid StasisStart or StasisEnd message read while a handler is
\* registered for its kind launches exactly one handler task, which runs the
\* handler of that kind (taken from that kind's slot); with no handler
\* registered it launches none; and no message ever has two tasks.
C2_ExactlyOnce ==
    /\ \A i \in 1..nread : Cardinality(TasksFor(i)) <= 1
    /\ \A l \in ConnIds :
          LET lp == loops[l]
              type == lp.message.type
          IN (IsValidKnown(lp.message) /\ lp.pc \in {"bind", "except"})
                => IF Registered(type) # None
                   THEN /\ Cardinality(TasksFor(lp.idx)) = 1
                        /\ \A t \in TasksFor(lp.idx) :
                              /\ t.kind = type
                              /\ t.handler = Registered(type)
                              /\ t.slot = (IF type = STASIS_START
                                           THEN "stasis_start_handler"
                                           ELSE "stasis_end_handler")
                   ELSE TasksFor(lp.idx) = {}

C2_Witness ==
    \E l \in ConnIds :
        /\ loops[l].pc = "bind"
        /\ loops[l].message.type = STASIS_END
        /\ stasis_start_handler = "h1"
        /\ stasis_end_handler = "h2"
        /\ \E t \in TasksFor(loops[l].idx) : t.handler = "h2" /\ t.kind = STASIS_END

\* ---- C3 ----------------------------------------------------------------
\* C3: the channel a StasisStart handler receives is bound: when the handler
\* has called answer() on it, the controller's answer capability has been
\* invoked exactly once, with the channel's id, and answer() has not raised
\* "Answer handler not set".
C3_HandlerChannelBound ==
    \A t \in tasks :
        (t.kind = STASIS_START /\ t.answers = 1)
            => /\ t.calls = << <<"answer_channel", t.channel.id>> >>
               /\ t.exc # "Answer handler not set"

\* ---- C4 ----------------------------------------------------------------
\* C4: a transport error raised by recv() is not swallowed: the loop task
\* holding it is Faulted (the error has left the task), never inside the
\* per-message handler that logs and continues.
C4_TransportFaultPropagates ==
    \A l \in ConnIds : loops[l].exc = "ConnectionClosed" => loops[l].pc = "faulted"

\* ---- C5 ----------------------------------------------------------------
\* C5: the loop never waits for a handler.  Whatever the handler tasks do,
\* and also when none of them ever takes another step, a loop that is
\* processing a message gets back to the top of the loop, where it calls
\* recv() again.
C5_LoopNeverWaits ==
    \A l \in ConnIds : (loops[l].pc \in Processing) ~> (loops[l].pc = "top")

C5_Witness ==
    \E l \in ConnIds : \E t1, t2 \in tasks :
        /\ t1.pc = "running"
        /\ t1.idx < t2.idx
        /\ t2.idx = loops[l].idx
        /\ loops[l].pc = "bind"

\* ---- C6 ----------------------------------------------------------------
\* C6: an exception raised inside a handler never reaches the loop.  The step
\* in which a handler raises, and the step in which the done callback takes
\* the exception, leave every loop task as it was; no loop task is ever
\* Faulted or holds a handler's exception.
C6_HandlerFailureStep ==
    \E t \in tasks : \E u \in tasks' :
        /\ u.id = t.id
        /\ \/ t.pc = "running" /\ u.pc = "raised"
           \/ t.pc = "raised" /\ u.pc = "supervised"

C6_LoopUntouched ==
    \A l \in ConnIds :
        /\ loops[l].pc # "faulted"
        /\ loops[l].exc \in {None, "ValidationError", "TypeError", "ConnectionClosed",
                              "RuntimeError"}

C6_HandlerErrorIsolated ==
    [](C6_LoopUntouched) /\ [][C6_HandlerFailureStep => loops' = loops]_vars

C6_Witness ==
    \E l \in ConnIds : \E t \in tasks :
        /\ t.pc = "supervised"
        /\ t.exc = "HandlerError"
        /\ loops[l].pc = "bind"
        /\ loops[l].idx > t.idx
        /\ TasksFor(loops[l].idx) # {}

\* ---- C7 ----------------------------------------------------------------
\* C7: last registration wins.  A valid message of a kind, once dispatched,
\* has exactly one handler task, and it runs the handler most recently
\* passed to that kind's registration call, whatever was registered before.
C7_LastRegistrationWins ==
    \A l \in ConnIds :
        LET lp == loops[l] IN
        (IsValidKnown(lp.message) /\ lp.pc \in {"bind", "except"}
           /\ last_registered[lp.message.type] # None)
            => /\ Cardinality(TasksFor(lp.idx)) = 1
               /\ \A t \in TasksFor(lp.idx) : t.handler = last_registered[lp.message.type]

C7_Witness ==
    \E l \in ConnIds : \E old \in tasks : \E new \in TasksFor(loops[l].idx) :
        /\ loops[l].pc = "bind"
        /\ old.idx < new.idx
        /\ old.kind = STASIS_START /\ new.kind = STASIS_START
        /\ old.handler = "h1" /\ new.handler = "h2"

\* ---- C8 ----------------------------------------------------------------
\* C8: a valid known-kind message with no handler registered launches no
\* handler and its processing raises no error: the loop never handles an
\* exception while it holds such a message.
C8_NoHandlerNoError ==
    \A l \in ConnIds :
        LET lp == loops[l] IN
        (IsValidKnown(lp.message) /\ Registered(lp.message.type) = None)
            => /\ TasksFor(lp.idx) = {}
               /\ lp.exc = None
               /\ lp.pc # "except"

\* ---- C9 ----------------------------------------------------------------
\* C9: a message of an unknown kind is decoded without failure, launches no
\* handler, raises no error, and the loop goes from the branch on its type
\* straight back to the top of the loop.
C9_UnknownKindInv ==
    \A l \in ConnIds :
        IsUnknownKind(loops[l].message)
            => /\ loops[l].pc \in {"validate", "dispatch"}
               /\ loops[l].exc = None
               /\ TasksFor(loops[l].idx) = {}

C9_UnknownKindStep ==
    \A l \in ConnIds :
        (loops[l].pc = "dispatch" /\ IsUnknownKind(loops[l].message))
            => loops'[l].pc = "top" /\ loops'[l].exc = None /\ tasks' = tasks

C9_UnknownKindPassesThrough ==
    [](C9_UnknownKindInv) /\ [][C9_UnknownKindStep]_vars

C9_Witness ==
    \E l \in ConnIds :
        /\ loops[l].pc = "dispatch"
        /\ IsUnknownKind(loops[l].message)
        /\ stasis_start_handler # None /\ stasis_end_handler # None

\* ---- C10 ---------------------------------------------------------------
\* C10: a message of a known kind that fails typed validation launches no
\* handler; the failure is a ValidationError held by the per-message
\* handler, from which the loop goes back to the top of the loop.
C10_KnownInvalidInv ==
    \A l \in ConnIds :
        IsKnownInvalid(loops[l].message)
            => /\ TasksFor(loops[l].idx) = {}
               /\ loops[l].pc \in {"validate", "dispatch", "except"}
               /\ (loops[l].pc = "except" => loops[l].exc = "ValidationError")

C10_KnownInvalidStep ==
    \A l \in ConnIds :
        (loops[l].pc = "except" /\ IsKnownInvalid(loops[l].message))
            => loops'[l].pc = "top" /\ tasks' = tasks

C10_TypedFailureIsPerMessage ==
    [](C10_KnownInvalidInv) /\ [][C10_KnownInvalidStep]_vars

C10_Witness ==
    \E l \in ConnIds :
        /\ loops[l].pc = "except"
        /\ IsKnownInvalid(loops[l].message)
        /\ loops[l].message.timestamp = "bad"
        /\ Registered(loops[l].message.type) # None

\* ---- C11 ---------------------------------------------------------------
\* C11: after disconnect() has been called on a connected client, the loop
\* task that was its listener reads no further message and launches no
\* handler: from then on it is suspended with its cancellation pending, or
\* it has ended, and no step gives it a message or adds a task of its own.
TaskIds(l, ts) == {t.id : t \in {u \in ts : u.loop = l}}

C11_NoReadAfterDisconnect ==
    \A l \in ConnIds :
        loops[l].disconnected
            => /\ loops[l].pc \in {"created", "recv", "cancelled"}
               /\ (loops[l].pc # "cancelled" => loops[l].cancel)

C11_NoLaunchStep ==
    \A l \in ConnIds :
        loops[l].disconnected
            => /\ TaskIds(l, tasks') = TaskIds(l, tasks)
               /\ loops'[l].message = loops[l].message
               /\ loops'[l].idx = loops[l].idx

C11_DisconnectStopsDispatch ==
    [](C11_NoReadAfterDisconnect) /\ [][C11_NoLaunchStep]_vars

C11_Witness ==
    \E l \in ConnIds :
        /\ loops[l].disconnected
        /\ loops[l].pc = "cancelled"
        /\ nread < MaxMsgs
        /\ \E t \in tasks : t.loop = l /\ t.pc = "running"

\* ---- C12 ---------------------------------------------------------------
\* C12: whenever disconnect() has been called on a connected client, in
\* whatever state its loop task was suspended (not yet started, waiting in
\* recv() on an open connection, or waiting on one that has failed), the
\* loop task eventually ends cancelled and its connection is closed.  The
\* client is one on which every connect() but the first followed a
\* disconnect(): no loop task of an earlier connect() was left behind.
LeftBehind ==
    \E o \in ConnIds :
        loops[o].pc # "none" /\ o # event_listener /\ ~loops[o].disconnected

C12_DisconnectCloses ==
    \A l \in ConnIds :
        loops[l].disconnected
            ~> ((loops[l].pc = "cancelled" /\ conn[l] = "closed") \/ LeftBehind)

C12_Witness ==
    \E l \in ConnIds :
        /\ loops[l].disconnected
        /\ loops[l].pc = "cancelled"
        /\ conn[l] = "closed"
        /\ \E t \in tasks : t.loop = l /\ t.pc = "supervised"

\* ---- C13 ---------------------------------------------------------------
\* C13: disconnect() leaves the handler tasks alone.  The step of
\* disconnect() changes no handler task, no handler task is ever cancelled,
\* and a handler task that is still running when its loop has ended can
\* still return.
TaskPcs == {"running", "done", "raised", "supervised"}

C13_HandlersNeverCancelled ==
    /\ \A t \in tasks : t.pc \in TaskPcs
    /\ \A t \in tasks :
          (t.pc = "running" /\ loops[t.loop].pc = "cancelled" /\ Quiet)
              => ENABLED HandlerReturn(t)

C13_HandlersSurviveDisconnect ==
    [](C13_HandlersNeverCancelled) /\ [][Disconnect => tasks' = tasks]_vars

C13_Witness ==
    \E t \in tasks :
        /\ t.pc = "running"
        /\ loops[t.loop].disconnected
        /\ loops[t.loop].pc = "cancelled"
        /\ conn[t.loop] = "closed"

\* ---- C14 ---------------------------------------------------------------
\* C14: on a Channel built by create_with_handlers(answer_handler,
\* stop_handler, obj), answer() makes exactly one invocation,
\* answer_handler(id of obj), and stop() exactly one, stop_handler(id of obj).
C14_ChannelRoutes ==
    (Len(bindings.channel) = 1 /\ bindings.channel[1].by = "create_with_handlers")
        => LET b == bindings.channel[1] IN
           /\ op.name = "Channel.answer" => called = << <<b.answer, b.obj>> >>
           /\ op.name = "Channel.stop" => called = << <<b.stop, b.obj>> >>

C14_Witness ==
    /\ Len(bindings.channel) = 1
    /\ bindings.channel[1] =
           [by |-> "create_with_handlers", answer |-> "f1", stop |-> "f2", obj |-> "c2"]
    /\ op.name = "Channel.stop"
    /\ called = << <<"f2", "c2">> >>
    /\ raised = None

\* ---- C15 ---------------------------------------------------------------
\* C15: on a Bridge built by create_with_handlers (by a caller or by
\* controller.create_bridge), stop() makes exactly one invocation,
\* stop_handler(bridge id), and add_channel(c) exactly one,
\* add_channel_handler(bridge id, c), the bridge id first.
C15_BridgeRoutes ==
    (Len(bindings.bridge) = 1)
        => LET b == bindings.bridge[1] IN
           /\ op.name = "Bridge.stop" => called = << <<b.stop, b.obj>> >>
           /\ op.name = "Bridge.add_channel"
                 => called = << <<b.add_channel, b.obj, op.arg>> >>

C15_Witness ==
    /\ Len(bindings.bridge) = 1
    /\ bindings.bridge[1].by = "create_bridge"
    /\ bridge.id = "b1"
    /\ op = [name |-> "Bridge.add_channel", arg |-> "c2"]
    /\ called = << <<"bridge_add_channel", "b1", "c2">> >>

\* ---- C16 ---------------------------------------------------------------
\* C16: a method called on a Channel or Bridge that plain validation produced
\* (no handlers given) invokes nothing and raises the ValueError of that
\* method.
C16_UnboundRaises ==
    /\ (channel # NoChannel /\ bindings.channel = <<>>)
          => /\ op.name = "Channel.answer"
                  => called = <<>> /\ raised = "Answer handler not set"
             /\ op.name = "Channel.stop"
                  => called = <<>> /\ raised = "Stop handler not set"
    /\ (bridge # NoBridge /\ bindings.bridge = <<>>)
          => /\ op.name = "Bridge.stop"
                  => called = <<>> /\ raised = "Stop handler not set"
             /\ op.name = "Bridge.add_channel"
                  => called = <<>> /\ raised = "Add channel handler not set"

C16_Witness ==
    /\ bridge # NoBridge
    /\ bindings.bridge = <<>>
    /\ op.name = "Bridge.stop"
    /\ called = <<>>
    /\ raised = "Stop handler not set"

\* ---- C17 ---------------------------------------------------------------
\* C17: whenever the client is not connected (no connect() has succeeded, or
\* disconnect() has been called), reading the property `ari` raises
\* ValueError "Not connected to Asterisk".
NotConnected ==
    /\ connecting = 0
    /\ event_listener = 0 \/ loops[event_listener].disconnected

C17_NotConnectedRaises ==
    NotConnected => ari.raised = "Not connected to Asterisk"

\* ---- C18 ---------------------------------------------------------------
\* C18: add_handlers on a Channel that already has handlers replaces them:
\* answer() then makes exactly one invocation, of the answer handler given
\* last, and stop() of the stop handler given last, each with the channel's
\* id; a handler given earlier is not invoked.
C18_RebindReplaces ==
    (Len(bindings.channel) >= 2)
        => LET b == bindings.channel[Len(bindings.channel)]
               id == bindings.channel[1].obj
           IN
           /\ b.by = "add_handlers"
           /\ op.name = "Channel.answer" => called = << <<b.answer, id>> >>
           /\ op.name = "Channel.stop" => called = << <<b.stop, id>> >>

C18_Witness ==
    /\ Len(bindings.channel) = 2
    /\ bindings.channel[1].answer = "f1"
    /\ bindings.channel[1].stop = "f1"
    /\ bindings.channel[2].answer = "f2"
    /\ op.name = "Channel.answer"
    /\ called = << <<"f2", bindings.channel[1].obj>> >>

\* ---- C19 ---------------------------------------------------------------
\* C19: the Channel a control-plane call returns and the Channel an event
\* delivers for the same id act alike: when create_channel got a success
\* status it returns a channel of that id, and answer() on it and on the
\* event's channel make the same invocation, answer_channel(id).
EventChannel(c) ==
    Channel_add_handlers(Channel_model_validate(c), ListenEvents_bind_kwargs,
                         "answer_channel", "stop_channel").channel

C19_SameBindingEitherOrigin ==
    (op.name = "create_channel" /\ raised # "Failed to create channel")
        => /\ raised = None
           /\ channel.id = op.arg
           /\ Channel_answer(channel) = Channel_answer(EventChannel(op.arg))
           /\ Channel_answer(channel).call = <<"answer_channel", op.arg>>

\* ---- C20 ---------------------------------------------------------------
\* C20: a Channel that has been given handlers has dial: dial(caller,
\* timeout) raises no AttributeError and makes one invocation, whose first
\* argument is the channel's id.
C20_ChannelDialRoutes ==
    (op.name = "Channel.dial" /\ bindings.channel # <<>>)
        => /\ raised # "AttributeError"
           /\ Len(called) = 1
           /\ called[1][2] = channel.id

\* ---- C22 ---------------------------------------------------------------
\* C22: messages are decoded, and their handlers launched, in the order the
\* transport delivers them: the message a loop has in hand is the one
\* delivered last, nothing is launched for a message not yet delivered, and
\* of two launched handlers the one of the earlier message was launched
\* first.  (Nothing orders their completions: see the witness.)
C22_DeliveryOrder ==
    /\ \A l \in ConnIds : loops[l].message # NoMsg => loops[l].idx = nread
    /\ \A t \in tasks : t.idx <= nread
    /\ \A t1, t2 \in tasks : t1.idx < t2.idx => t1.id < t2.id

\* The handler of the second message has completed while the handler of the
\* first is still running.
C22_Witness ==
    \E t1, t2 \in tasks :
        /\ t1.idx = 1 /\ t2.idx = 2
        /\ t1.id < t2.id
        /\ t1.pc = "running"
        /\ t2.pc = "done"

\* ---- C27 ---------------------------------------------------------------
\* C27: the step that completes connect(app) leaves the controller, the
\* application name and the transport handle set, the connection open and a
\* dispatch loop started on it; and in every state in which a dispatch loop
\* has been started the controller and the transport handle are set.
C27_LoopStartedInv ==
    \A l \in ConnIds :
        loops[l].pc # "none"
            => controller # 0 /\ ws # 0 /\ app # None /\ event_listener # 0

C27_ConnectStep ==
    event_listener' # event_listener
        => /\ controller' = event_listener'
           /\ app' \in Apps
           /\ ws' = event_listener'
           /\ conn'[ws'] = "open"
           /\ loops[event_listener'].pc = "none"
           /\ loops'[event_listener'].pc = "created"

C27_ConnectEstablishes == []C27_LoopStartedInv /\ [][C27_ConnectStep]_vars

\* A loop started by connect() is waiting in recv() on the client's connection.
C27_Witness ==
    /\ event_listener = 1
    /\ loops[1].pc = "recv"
    /\ loops[1].on = ws
    /\ controller = 1
    /\ ws = 1
    /\ app = "app"
    /\ conn[1] = "open"

\* ---- C28 ---------------------------------------------------------------
\* C28: a handler is launched only after the message's decoding and the
\* binding of its channel have both succeeded: a message whose decode or
\* bind step raised has launched no handler, and a launched handler's
\* message has been bound.
C28_LaunchAfterBind ==
    \A l \in ConnIds :
        /\ (loops[l].pc = "except" /\ loops[l].message # NoMsg)
               => TasksFor(loops[l].idx) = {}
        /\ (loops[l].pc = "bind") => TasksFor(loops[l].idx) = {}

\* ---- C30 ---------------------------------------------------------------
\* C30: the handler is resolved when the message is processed: a handler is
\* launched only by the loop's dispatch of the message it has in hand, the
\* last one delivered, and it is the handler registered for the message's
\* kind at that step; a registration launches nothing, and the handler of a
\* launched invocation never changes afterwards.
C30_LaunchStep ==
    \A t \in tasks' :
        (t.id \notin {u.id : u \in tasks})
            => /\ loops[t.loop].pc = "dispatch"
               /\ loops[t.loop].idx = t.idx
               /\ t.idx = nread
               /\ t.kind = loops[t.loop].message.type
               /\ t.handler = Registered(t.kind)

C30_RegistrationStep ==
    (registry' # registry) => tasks' = tasks

C30_HandlerFixed ==
    \A t \in tasks : \E u \in tasks' :
        u.id = t.id /\ u.idx = t.idx /\ u.kind = t.kind /\ u.handler = t.handler

C30_ResolvedAtProcessing ==
    [][C30_LaunchStep /\ C30_RegistrationStep /\ C30_HandlerFixed]_vars

\* The first message launched nothing; a handler registered afterwards, with
\* the loop running, is launched for the second message and for it alone.
C30_Witness ==
    /\ nread = 2
    /\ TasksFor(1) = {}
    /\ \E t \in TasksFor(2) :
          /\ t.kind = STASIS_START
          /\ t.handler = "h1"
          /\ stasis_start_handler = "h1"
    /\ Cardinality(tasks) = 1

\* ---- C23 ---------------------------------------------------------------
\* C23: handlers do not count in equality: a Channel (a Bridge) compares
\* equal to the Channel (Bridge) validated from the same data with no
\* handlers, whatever handlers it has been given itself.
C23_BindingsNotCompared ==
    /\ channel # NoChannel => Channel_eq(channel, Channel_model_validate(channel.id))
    /\ bridge # NoBridge
          => Bridge_eq(bridge, Bridge_model_validate([id |-> bridge.id,
                                                      channels |-> bridge.channels]))

\* ---- C24 ---------------------------------------------------------------
\* C24: Bridge.add_channel(c) and Bridge.stop() leave the Bridge object as
\* it was, its `channels` list and its id included, whether the handler
\* returns, the handler raises, or the method itself raises.
C24_BridgeStep ==
    (op'.name \in {"Bridge.stop", "Bridge.add_channel"})
        => /\ bridge # NoBridge
           /\ bridge' = bridge
           /\ bridge'.channels = bridge.channels

C24_BridgeDataUnchanged == [][C24_BridgeStep]_vars

\* add_channel("c2") has returned on a bridge whose members are still <<"c1">>.
C24_Witness ==
    /\ op = [name |-> "Bridge.add_channel", arg |-> "c2"]
    /\ raised = None
    /\ called = << <<"f1", bridge.id, "c2">> >>
    /\ bridge.channels = <<"c1">>

\* ---- C25 ---------------------------------------------------------------
\* C25: a capability call issues exactly one request, the one of that
\* capability for the ids it was given; it returns when the status is in the
\* capability's success class (204; for dial, below 300) and otherwise
\* raises its "Failed to ..." error made from the status and the body; the
\* call changes nothing of the dispatch loop.
C25_CallInv ==
    (op.name \in Capabilities)
        => /\ Len(called) = 1
           /\ called[1] = Capability_request(op.name, op.args)
           /\ (raised = None)
                 <=> IF op.name = "dial"
                     THEN op.response.status_code < 300
                     ELSE op.response.status_code = 204
           /\ raised # None
                 => /\ raised = Capability_message(op.name)
                    /\ op.detail = <<op.response.status_code, op.response.text>>

C25_CallStep ==
    (op'.name \in Capabilities) => loops' = loops /\ tasks' = tasks

C25_OneRequestStatusDecides == []C25_CallInv /\ [][C25_CallStep]_vars

\* answer_channel got 200, which is not its success status: one request,
\* and the error carries 200 and the body.
C25_Witness ==
    /\ op.name = "answer_channel"
    /\ op.response = [status_code |-> 200, text |-> "not found"]
    /\ called = << <<"POST", "/channels", "c1", "answer">> >>
    /\ raised = "Failed to answer channel"
    /\ op.detail = <<200, "not found">>

\* ---- C21 ---------------------------------------------------------------
\* C21: a timestamp whose offset is written without the colon validates to
\* what the same timestamp with the colon validates to, an aware datetime of
\* that offset unless the offset is out of range; normalizing a timestamp
\* whose offset has the colon leaves it as it is, and normalizing twice is
\* normalizing once.
HasBasicOffset(v) ==
    Len(v) = 6 /\ v[2] \in Signs /\ AllDigits(SubSeq(v, 3, 6))
HasColonOffset(v) ==
    Len(v) = 7 /\ v[2] \in Signs /\ v[5] = ":" /\ AllDigits(SubSeq(v, 3, 4) \o SubSeq(v, 6, 7))
ColonForm(v) == SubSeq(v, 1, 4) \o <<":">> \o SubSeq(v, 5, 6)
OffsetSeconds(hh, mm) == 3600 * TwoDigits(hh, 1) + 60 * TwoDigits(mm, 1)

C21_NormalizationStable ==
    (op.name = "validate_timestamp")
        => LET v == op.arg
               got == [raised |-> raised, value |-> op.value]
           IN
           /\ got = Timestamp_validate(v, op.lenient)
           /\ HasBasicOffset(v)
                 => /\ got = Timestamp_validate(ColonForm(v), op.lenient)
                    /\ got = datetime_fromisoformat(ColonForm(v), op.lenient)
                    /\ LET secs == OffsetSeconds(SubSeq(v, 3, 4), SubSeq(v, 5, 6)) IN
                       IF secs < 86400
                       THEN got = [raised |-> None, value |-> Aware(v[2], secs)]
                       ELSE raised = "ValueError"
           /\ HasColonOffset(v) => re_sub(v) = v
           /\ re_sub(re_sub(v)) = re_sub(v)

\* "+0600" has validated to the aware datetime of offset +06:00.
C21_Witness ==
    /\ op.name = "validate_timestamp"
    /\ op.arg = <<DateTime, "+", "0", "6", "0", "0">>
    /\ raised = None
    /\ op.value = [aware |-> TRUE, sign |-> "+", seconds |-> 21600]
    /\ re_sub(op.arg) = <<DateTime, "+", "0", "6", ":", "0", "0">>

\* ---- C29 ---------------------------------------------------------------
\* C29: whatever connect() and disconnect() calls are made on one client, a
\* second connect() without a disconnect() included, at most one dispatch
\* loop is reading from the transport: at most one loop task is waiting in
\* recv() on an open connection with no cancellation pending.
Reading(l) ==
    /\ loops[l].pc = "recv"
    /\ ~loops[l].cancel
    /\ conn[loops[l].on] = "open"

C29_SingleConsumer ==
    Cardinality({l \in ConnIds : Reading(l)}) <= 1

\* ---- C26 ---------------------------------------------------------------
\* C26: a registration stores the function as the handler of its kind and
\* returns that function, in the decorator forms as in the direct call; and
\* on every slot value the decorator forms have the effect and the result
\* of the call.
OpKind == IF op.name = "on_stasis_start" THEN STASIS_START ELSE STASIS_END

C26_SameInBothForms ==
    (op.name \in {"on_stasis_start", "on_stasis_end"})
        => /\ op.arg \in Handlers
           /\ Registered(OpKind) = op.arg
           /\ last_registered[OpKind] = op.arg
           /\ op.returned = op.arg
           /\ \A func \in Handlers, parentheses \in BOOLEAN :
                 Registration_decorated(Registered(OpKind), func, parentheses)
                     = Registration_call(Registered(OpKind), func)

\* `@client.on_stasis_end()` above h2 has replaced h1 and returned h2.
C26_Witness ==
    /\ op = [name |-> "on_stasis_end", arg |-> "h2", form |-> "decorator()",
             returned |-> "h2"]
    /\ stasis_end_handler = "h2"
    /\ stasis_start_handler = "h1"
    /\ \E l \in ConnIds : loops[l].pc = "recv"

\* ---- C31 ---------------------------------------------------------------
\* C31: handlers are not serialized per channel: when the loop has
\* dispatched a valid event of a kind with a handler while an invocation for
\* an earlier event of the same channel is still running, the new
\* invocation has been launched all the same and runs beside it.
C31_NotSerializedPerChannel ==
    \A l \in ConnIds :
        LET lp == loops[l] IN
        (/\ lp.pc = "bind"
         /\ Registered(lp.message.type) # None
         /\ \E t \in tasks : /\ t.idx < lp.idx
                             /\ t.pc = "running"
                             /\ t.channel.id = lp.message.channel)
            => \E t \in tasks, u \in TasksFor(lp.idx) :
                   /\ t.idx < u.idx
                   /\ t.channel.id = u.channel.id
                   /\ t.pc = "running"
                   /\ u.pc = "running"

\* The invocations for two back-to-back events of channel c1 are both running.
C31_Witness ==
    \E t, u \in tasks :
        /\ t.idx = 1 /\ u.idx = 2
        /\ t.channel.id = "c1" /\ u.channel.id = "c1"
        /\ t.pc = "running" /\ u.pc = "running"

\* ---- C32 ---------------------------------------------------------------
\* C32: a loop that has started leaves its cycle of reading and dispatching
\* only by a cancellation that disconnect() requested or by a fault of the
\* connection it reads: after a decode error, a binding error, a missing
\* handler or an unknown kind its next place is in the cycle, and a step of
\* a handler invocation (its exception, a failed capability call, its
\* supervision) leaves every loop where it is.
Cycle == {"top", "recv", "validate", "dispatch", "bind", "except"}

C32_EndedInv ==
    \A l \in ConnIds :
        (loops[l].pc \in {"cancelled", "faulted"})
            => \/ loops[l].disconnected
               \/ loops[l].on # 0 /\ conn[loops[l].on] \in {"failed", "closed"}

C32_LeaveStep ==
    \A l \in ConnIds :
        (loops[l].pc \in Cycle /\ loops'[l].pc \notin Cycle)
            => \/ /\ loops'[l].pc = "cancelled"
                  /\ loops[l].cancel
                  /\ loops[l].disconnected
               \/ /\ loops'[l].pc = "faulted"
                  /\ loops[l].pc = "recv"
                  /\ conn[loops[l].on] \in {"failed", "closed"}

C32_HandlerStep ==
    (\E t \in tasks, u \in tasks' : u.id = t.id /\ u.pc # t.pc) => loops' = loops

C32_OnlyFaultOrCancelEnds ==
    []C32_EndedInv /\ [][C32_LeaveStep /\ C32_HandlerStep]_vars

\* The loop is reading again after a binding error and a decode error, and
\* the exception of the handler it launched has been dealt with.
C32_Witness ==
    \E l \in ConnIds : \E t \in tasks :
        /\ loops[l].pc = "recv"
        /\ ~loops[l].cancel
        /\ conn[loops[l].on] = "open"
        /\ loops[l].sawMalformed
        /\ nread = 2
        /\ t.loop = l
        /\ t.pc = "supervised"
        /\ t.exc # None

\* ---- C33 ---------------------------------------------------------------
\* C33: a slot of the registry that holds a handler holds one in every later
\* state (a registration call without a handler changes nothing), a step
\* that changes one slot leaves the other as it was, and a slot is empty
\* only if nothing was ever registered for its kind.
C33_SlotStep ==
    /\ stasis_start_handler # None => stasis_start_handler' # None
    /\ stasis_end_handler # None => stasis_end_handler' # None
    /\ stasis_start_handler' # stasis_start_handler => stasis_end_handler' = stasis_end_handler
    /\ stasis_end_handler' # stasis_end_handler => stasis_start_handler' = stasis_start_handler

C33_SlotInv ==
    \A type \in EventType : Registered(type) = None <=> last_registered[type] = None

C33_SlotsNeverEmptied == []C33_SlotInv /\ [][C33_SlotStep]_vars

\* A handler registered for StasisStart before the loop read anything is
\* still there after two messages, and the StasisEnd slot is still empty.
C33_Witness ==
    /\ stasis_start_handler = "h2"
    /\ last_registered[STASIS_START] = "h2"
    /\ stasis_end_handler = None
    /\ nread = 2
    /\ \E t \in tasks : t.idx = 1 /\ t.handler = "h2"

====
